---- MODULE Spec2Model ----
(***************************************************************************)
(* A model of line-straddler (src/src/lib.rs): the LineGenerator that      *)
(* merges a stream of glyphs into decoration lines, and the harness of     *)
(* src/tests/smoke.rs that feeds it and collects what it returns.          *)
(*                                                                         *)
(* f32 coordinates are modelled as integers counting units of 2^-34 pixel, *)
(* the resolution at which EPSILON, the f32 nearest to 0.001, is a whole   *)
(* number of units (17179870).  The model checker's integers are 32-bit,   *)
(* so every coordinate of the model lies below 2^-4 pixel.  Every input is *)
(* an exact f32; a sum or a difference is rounded as f32 rounds it (to 24  *)
(* significant bits, ties to even); halving is exact.  NaN, infinities and *)
(* subnormal numbers are outside the model.                                *)
(***************************************************************************)
EXTENDS Integers, Naturals, Sequences, FiniteSets, TLC

\* ------------------------------------------------------------------ bounds
\* The number of calls (add_glyph or pop_line) made on one generator.
MaxCalls == 4

\* ------------------------------------------------------------------- f32
\* A coordinate c of the model is the f32 c / 2^34.
\* n / 16384 pixel, in units.
Grid(n) == n * 2 ^ 20

abs(a) == IF a < 0 THEN 0 - a ELSE a

\* The spacing of the f32 values around a magnitude of m units, m at least
\* 2^24: an f32 has 24 significant bits.  The bounds are 2^25, ..., 2^30.
Ulp(m) ==
    IF m < 33554432 THEN 2
    ELSE IF m < 67108864 THEN 4
    ELSE IF m < 134217728 THEN 8
    ELSE IF m < 268435456 THEN 16
    ELSE IF m < 536870912 THEN 32
    ELSE IF m < 1073741824 THEN 64
    ELSE 128

\* n rounded to the nearest multiple of q, to the even multiple when n is
\* half way between two; n is not negative.
RoundTo(n, q) ==
    LET r == n % q
        lo == n - r
    IN  IF 2 * r > q \/ (2 * r = q /\ (lo \div q) % 2 = 1)
        THEN lo + q
        ELSE lo

\* The f32 result of an operation whose exact result is n units: the f32
\* nearest to n, the one with the even significand when n is half way.  A
\* whole number of units below 2^24 is an f32.
f32(n) ==
    IF n < 0
    THEN IF n > -16777216 THEN n ELSE 0 - RoundTo(0 - n, Ulp(0 - n))
    ELSE IF n < 16777216 THEN n ELSE RoundTo(n, Ulp(n))

\* Option<T>: None is the empty sequence, Some(v) the one-element sequence.
None == << >>

Some(v) == << v >>

\* ------------------------------------------------------------------ Color
\* A u32 is kept as its two 16-bit halves [hi, lo], value hi * 2^16 + lo
\* (the model checker's integers are 32-bit signed, a u32 does not fit one).
\* Color::rgba: (r << 24) | (g << 16) | (b << 8) | a.  The four fields do not
\* overlap, so the ors are sums: r and g land in the high half, b and a in
\* the low half.
\* rgba, with alpha in the highest byte and red in the lowest.
rgba_abgr(r, g, b, a) ==
    [hi |-> (a * 2 ^ 8 + b) % 2 ^ 16, lo |-> (g * 2 ^ 8 + r) % 2 ^ 16]

rgba(r, g, b, a) ==
    [hi |-> (r * 2 ^ 8 + g) % 2 ^ 16, lo |-> (b * 2 ^ 8 + a) % 2 ^ 16]

\* Color::red: (self.0 >> 24) & 0xFF.  The value shifted right by 24 bits is
\* the high half shifted right by 8.
red(self) == (self.hi \div 2 ^ 8) % 2 ^ 8

\* Color::green: (self.0 >> 16) & 0xFF.  The value shifted right by 16 bits
\* is the high half.
green(self) == self.hi % 2 ^ 8

\* Color::blue: (self.0 >> 8) & 0xFF.  The value shifted right by 8 bits is
\* the high half followed by the upper byte of the low half.
blue(self) == (self.hi * 2 ^ 8 + self.lo \div 2 ^ 8) % 2 ^ 8

\* Color::alpha: self.0 & 0xFF.  The mask keeps the lowest byte, which lies
\* in the low half.
alpha(self) == self.lo % 2 ^ 8

\* Color::components
components(self) == << red(self), green(self), blue(self), alpha(self) >>

\* -------------------------------------------------------------- GlyphStyle
GlyphStyle(bold, color) == [bold |-> bold, color |-> color]

\* -------------------------------------------------------------- LineType
LineType == {"Overline", "StrikeThrough", "Underline"}

\* offset, with the Overline and Underline arms exchanged.
offset_swapped(self, font_size) ==
    CASE self = "Overline" -> font_size
      [] self = "StrikeThrough" -> font_size \div 2
      [] self = "Underline" -> 0

\* LineType::offset.  font_size / 2.0 is exact in f32; the font sizes of the
\* model are even numbers of units, so \div is exact too.
offset(self, font_size) ==
    CASE self = "Overline" -> 0
      [] self = "StrikeThrough" -> font_size \div 2
      [] self = "Underline" -> font_size

\* ------------------------------------------------------------ approx_eq
\* const EPSILON: f32 = 0.001.  The f32 nearest to 0.001 is 8589935 / 2^33
\* (bits 0x3A83126F), a little more than 0.001: 17179870 units.
EPSILON == 17179870

\* approx_eq, with a bound that is not strict.
approx_eq_le(a, b) == abs(f32(a - b)) <= EPSILON

\* abs(a - b) < EPSILON, the difference being an f32 subtraction.
approx_eq(a, b) == abs(f32(a - b)) < EPSILON

\* ---------------------------------------------------------- LineGenerator
\* impl From<OngoingLine> for Line
From(line) ==
    [y |-> line.y, start_x |-> line.start_x, end_x |-> line.end_x,
     style |-> line.style]

\* Option::map(Into::into)
MapInto(opt) == IF opt = None THEN None ELSE Some(From(opt[1]))

\* LineGenerator::new
new(ty) == [ongoing_line |-> None, line_type |-> ty]

\* pop_line, leaving a generator as new(Overline) would.
pop_line_retype(self) ==
    [self |-> new("Overline"), ret |-> MapInto(self.ongoing_line)]

\* pop_line, reading the open run without taking it.
pop_line_keep(self) == [self |-> self, ret |-> MapInto(self.ongoing_line)]

\* LineGenerator::pop_line: take() the open run and convert it.
pop_line(self) ==
    [self |-> [self EXCEPT !.ongoing_line = None],
     ret |-> MapInto(self.ongoing_line)]

\* Extends, with a strict comparison of end_x and x.
ExtendsStrict(line, glyph) ==
    /\ approx_eq(line.last_line_y, glyph.line_y)
    /\ line.end_x < glyph.x
    /\ approx_eq(line.font_size, glyph.font_size)
    /\ line.style = glyph.style

\* Extends, without the comparison of the styles.
ExtendsNoStyle(line, glyph) ==
    /\ approx_eq(line.last_line_y, glyph.line_y)
    /\ line.end_x <= glyph.x
    /\ approx_eq(line.font_size, glyph.font_size)

\* Extends, without the comparison of the font sizes.
ExtendsNoFont(line, glyph) ==
    /\ approx_eq(line.last_line_y, glyph.line_y)
    /\ line.end_x <= glyph.x
    /\ line.style = glyph.style

\* The condition under which add_glyph_impl extends the open run.
Extends(line, glyph) ==
    /\ approx_eq(line.last_line_y, glyph.line_y)
    /\ line.end_x <= glyph.x
    /\ approx_eq(line.font_size, glyph.font_size)
    /\ line.style = glyph.style

\* Extend, moving start_x to the glyph as well.
ExtendMoveStart(line, glyph) ==
    [line EXCEPT !.end_x = f32(glyph.x + glyph.width), !.start_x = glyph.x]

\* Extend, leaving end_x where it was.
ExtendKeepEnd(line, glyph) == line

\* The extension itself: only end_x is assigned.
Extend(line, glyph) == [line EXCEPT !.end_x = f32(glyph.x + glyph.width)]

\* The OngoingLine a glyph opens.
NewLine(line_type, glyph) ==
    [y |-> f32(glyph.line_y + offset(line_type, glyph.font_size)),
     last_line_y |-> glyph.line_y,
     start_x |-> glyph.x,
     end_x |-> f32(glyph.x + glyph.width),
     style |-> glyph.style,
     font_size |-> glyph.font_size]

\* Snap, comparing the run's decoration y with the glyph's line_y.
SnapByY(old_line, glyph) ==
    IF approx_eq(old_line.y, glyph.line_y)
    THEN [old_line EXCEPT !.end_x = glyph.x]
    ELSE old_line

\* Snap, moving end_x whatever line the glyph is on.
SnapAlways(old_line, glyph) == [old_line EXCEPT !.end_x = glyph.x]

\* Snap, never moving end_x.
SnapNever(old_line, glyph) == old_line

\* The old line ends where the new glyph begins if it is on the same line.
Snap(old_line, glyph) ==
    IF approx_eq(old_line.last_line_y, glyph.line_y)
    THEN [old_line EXCEPT !.end_x = glyph.x]
    ELSE old_line

\* add_glyph_impl, returning the run the glyph opened instead of the old one.
add_glyph_impl_new(self, glyph) ==
    IF self.ongoing_line # None /\ Extends(self.ongoing_line[1], glyph)
    THEN [self |-> [self EXCEPT
                      !.ongoing_line = Some(Extend(self.ongoing_line[1], glyph))],
          ret |-> None]
    ELSE LET old_line == self.ongoing_line
             replaced == [self EXCEPT
                            !.ongoing_line = Some(NewLine(self.line_type, glyph))]
         IN  [self |-> replaced,
              ret |-> IF old_line = None
                      THEN None
                      ELSE MapInto(replaced.ongoing_line)]

\* LineGenerator::add_glyph_impl
add_glyph_impl(self, glyph) ==
    IF self.ongoing_line # None /\ Extends(self.ongoing_line[1], glyph)
    THEN [self |-> [self EXCEPT
                      !.ongoing_line = Some(Extend(self.ongoing_line[1], glyph))],
          ret |-> None]
    ELSE LET old_line == self.ongoing_line
             replaced == [self EXCEPT
                            !.ongoing_line = Some(NewLine(self.line_type, glyph))]
         IN  [self |-> replaced,
              ret |-> IF old_line = None
                      THEN None
                      ELSE MapInto(Some(Snap(old_line[1], glyph)))]

\* LineGenerator::add_glyph (Into<Glyph> is the identity for a Glyph)
add_glyph(self, glyph) == add_glyph_impl(self, glyph)

\* ------------------------------------------------------------ the inputs
Style1 == GlyphStyle(FALSE, rgba(0, 0, 0, 255))

Style2 == GlyphStyle(FALSE, rgba(255, 255, 255, 255))

Styles == {Style1, Style2}

\* Three line positions: neighbours are within the tolerance of each other
\* (12 / 16384 < 0.001), the outer two are not (24 / 16384 > 0.001).
LineYs == {0, Grid(12), Grid(24)}

\* Two font sizes that are not within the tolerance of each other.
FontSizes == {Grid(4), Grid(28)}

Xs == {Grid(0), Grid(2), Grid(4)}

Widths == {Grid(2)}

BaseLineY == 0

BaseFontSize == Grid(4)

AllGlyphs ==
    [line_y : LineYs, font_size : FontSizes, width : Widths, x : Xs,
     style : Styles]

\* How many of line_y, font_size and style differ from the base glyph's.
Deviations(g) ==
    (IF g.line_y # BaseLineY THEN 1 ELSE 0)
    + (IF g.font_size # BaseFontSize THEN 1 ELSE 0)
    + (IF g.style # Style1 THEN 1 ELSE 0)

\* The glyphs fed: any x, and at most one other field off the base value.
Glyphs == {g \in AllGlyphs : Deviations(g) <= 1}

\* ------------------------------------------------------------- the state
VARIABLES
    alg,      \* the LineGenerator: [ongoing_line, line_type]
    calls,    \* the calls made so far, in order
    rets,     \* rets[i] is what call i returned (an Option<Line>)
    opened    \* opened[i]: index in calls of the add_glyph call that opened
              \* the run open after call i, 0 if the generator is idle then

vars == << alg, calls, rets, opened >>

AddCall(glyph) == [op |-> "add_glyph", arg |-> Some(glyph)]

PopCall == [op |-> "pop_line", arg |-> None]

Init ==
    /\ alg \in {new(ty) : ty \in LineType}
    /\ calls = << >>
    /\ rets = << >>
    /\ opened = << >>

\* The run open now: the index of the call that opened it, 0 if idle.
RunFirst == IF opened = << >> THEN 0 ELSE opened[Len(opened)]

\* lines.extend(alg.add_glyph(glyph)); r is what the one call gives.
AddGlyph(glyph) ==
    /\ Len(calls) < MaxCalls
    /\ \E r \in {add_glyph(alg, glyph)} :
           LET extended == alg.ongoing_line # None /\ r.ret = None
           IN  /\ alg' = r.self
               /\ rets' = Append(rets, r.ret)
               /\ opened' = Append(opened,
                                   IF extended THEN RunFirst
                                   ELSE Len(calls) + 1)
    /\ calls' = Append(calls, AddCall(glyph))

\* lines.extend(alg.pop_line())
PopLine ==
    /\ Len(calls) < MaxCalls
    /\ \E r \in {pop_line(alg)} :
           /\ alg' = r.self
           /\ rets' = Append(rets, r.ret)
    /\ opened' = Append(opened, 0)
    /\ calls' = Append(calls, PopCall)

Next ==
    \/ \E glyph \in Glyphs : AddGlyph(glyph)
    \/ PopLine

Spec == Init /\ [][Next]_vars

\* ------------------------------------------------------ a shorter harness
\* The same calls as Next, on streams one call shorter: the bound of the
\* checks that run the whole stream again for every line type.
MaxShortCalls == 3

ShortNext == Len(calls) < MaxShortCalls /\ Next

SpecShort == Init /\ [][ShortNext]_vars

\* ------------------------------------------- glyphs around the tolerance
\* The number of add_glyph calls made with the glyphs below.
MaxNearCalls == 2

\* Two f32 values differ by exactly EPSILON only where the f32 spacing is
\* 2^-33 or finer, that is below 2^-8 pixel.
\* Line positions: 0, EPSILON itself (not within the tolerance of 0), and
\* the f32 just below EPSILON (within).
NearLineYs == {0, EPSILON - 2, EPSILON}

\* Font sizes: 8 / 16384 px, the f32 exactly EPSILON above it (not within
\* the tolerance of it) and the f32 just below that one (within); even
\* numbers of units, see offset.
NearFontSizes == {Grid(8), Grid(8) + EPSILON - 2, Grid(8) + EPSILON}

\* The right edge of a glyph at 0, and one unit to either side of it.
NearXs == {Grid(0), Grid(2) - 1, Grid(2), Grid(2) + 1}

NearGlyphs ==
    [line_y : NearLineYs, font_size : NearFontSizes, width : Widths,
     x : NearXs, style : Styles]

NearNext ==
    \E glyph \in NearGlyphs : Len(calls) < MaxNearCalls /\ AddGlyph(glyph)

SpecNear == Init /\ [][NearNext]_vars

\* ------------------------------------------------- the harness of colors
\* The channel bytes tried: those of the colors test, and the ends and the
\* middle of the u8 range.
Bytes == {0, 1, 2, 3, 4, 128, 255}

RgbaCall(r, g, b, a) == [op |-> "rgba", arg |-> Some(<< r, g, b, a >>)]

ComponentsCall(color) == [op |-> "components", arg |-> Some(color)]

\* No generator call is made in this harness; one generator exists.
ColorInit ==
    /\ alg = new("Overline")
    /\ calls = << >>
    /\ rets = << >>
    /\ opened = << >>

\* let color = Color::rgba(r, g, b, a)
Rgba(r, g, b, a) ==
    /\ calls = << >>
    /\ calls' = << RgbaCall(r, g, b, a) >>
    /\ rets' = << Some(rgba(r, g, b, a)) >>
    /\ UNCHANGED << alg, opened >>

\* color.components()
Components ==
    /\ Len(calls) = 1
    /\ calls[1].op = "rgba"
    /\ calls' = Append(calls, ComponentsCall(rets[1][1]))
    /\ rets' = Append(rets, Some(components(rets[1][1])))
    /\ UNCHANGED << alg, opened >>

ColorNext ==
    \/ \E r, g, b, a \in Bytes : Rgba(r, g, b, a)
    \/ Components

SpecColor == ColorInit /\ [][ColorNext]_vars

\* ---------------------------------------------------------------- claims
\* Reading the log of calls.
NCalls == Len(calls)

IsAdd(i) == calls[i].op = "add_glyph"

IsPop(i) == calls[i].op = "pop_line"

GlyphAt(i) == calls[i].arg[1]

\* The step just taken was a call of add_glyph / of pop_line.
AddStep == Len(calls') = Len(calls) + 1 /\ calls'[Len(calls')].op = "add_glyph"

PopStep == Len(calls') = Len(calls) + 1 /\ calls'[Len(calls')].op = "pop_line"

StepGlyph == calls'[Len(calls')].arg[1]

StepRet == rets'[Len(rets')]

\* "Within tolerance", stated on its own: |a - b| < 0.001 with a and b in
\* units of 2^-34.  0.001 is 17179869.184 units, so a whole number of units
\* is less than 0.001 iff it is at most 17179869.
WithinTolerance(a, b) == a - b <= 17179869 /\ b - a <= 17179869

\* The four conditions of C1 on an open run and a glyph.
FourHold(run, g) ==
    /\ WithinTolerance(run.last_line_y, g.line_y)
    /\ run.end_x <= g.x
    /\ WithinTolerance(run.font_size, g.font_size)
    /\ run.style = g.style

\* C1 as a property of one add_glyph step.
C1_Step ==
    AddStep =>
        LET g == StepGlyph
            old == alg.ongoing_line
            now == alg'.ongoing_line
            all4 == old # None /\ FourHold(old[1], g)
            extended ==
                /\ old # None
                /\ StepRet = None
                /\ now # None
                /\ opened'[Len(opened')] = RunFirst
                /\ now[1].start_x = old[1].start_x
                /\ now[1].y = old[1].y
                /\ now[1].style = old[1].style
        IN  /\ all4 <=> extended
            /\ ~all4 =>
                  /\ now # None
                  /\ opened'[Len(opened')] = Len(calls')
                  /\ now[1].start_x = g.x
                  /\ now[1].end_x = g.x + g.width
                  /\ now[1].style = g.style
                  /\ now[1].last_line_y = g.line_y
                  /\ now[1].font_size = g.font_size

\* C1: add_glyph(g) extends the open run iff the run's last_line_y is
\* within tolerance of g.line_y, its end_x <= g.x, its font_size is within
\* tolerance of g.font_size and its style equals g.style; in every other
\* case (no run open included) the open run is replaced by the run g opens,
\* with start_x = g.x, end_x = g.x + g.width, style, last_line_y and
\* font_size those of g.
C1_ExtendIffAllFour == [][C1_Step]_vars

\* C1 witness: both cases have happened.  The last call extended a run with
\* a glyph whose line_y is within tolerance of, but not equal to, the run's;
\* an earlier call replaced a run although only the font size differed.
C1_Witness ==
    /\ NCalls >= 3
    /\ IsAdd(1) /\ IsAdd(2) /\ IsAdd(NCalls)
    /\ rets[2] # None
    /\ GlyphAt(2).font_size # GlyphAt(1).font_size
    /\ GlyphAt(2).style = GlyphAt(1).style
    /\ GlyphAt(2).line_y = GlyphAt(1).line_y
    /\ GlyphAt(2).x >= GlyphAt(1).x + GlyphAt(1).width
    /\ rets[NCalls] = None
    /\ opened[NCalls] = 2
    /\ NCalls > 2
    /\ GlyphAt(NCalls).line_y # GlyphAt(2).line_y

\* C2: whenever a run is open, its last_line_y and its font_size are those
\* of the most recently added glyph.
C2_LastObservedIsLastGlyph ==
    (alg.ongoing_line # None /\ NCalls >= 1 /\ IsAdd(NCalls)) =>
        /\ alg.ongoing_line[1].last_line_y = GlyphAt(NCalls).line_y
        /\ alg.ongoing_line[1].font_size = GlyphAt(NCalls).font_size

\* C3 as a property of one add_glyph step.
C3_Step ==
    (/\ AddStep
     /\ alg.ongoing_line # None
     /\ StepRet # None
     /\ WithinTolerance(alg.ongoing_line[1].last_line_y, StepGlyph.line_y))
    => /\ StepRet[1].end_x = StepGlyph.x
       /\ alg'.ongoing_line # None
       /\ alg'.ongoing_line[1].start_x = StepGlyph.x

\* C3: when add_glyph(g) closes an open run whose last_line_y is within
\* tolerance of g.line_y, the Line it returns has end_x = g.x, which is the
\* start_x of the run g opens.
C3_SameLineBreakMeets == [][C3_Step]_vars

\* C3 witness: a glyph of the same style and font size, on a line position
\* within tolerance of the run's, overlapped the run; the Line returned ends
\* at the glyph's x, left of where the run had ended.
C3_Witness ==
    /\ NCalls >= 2
    /\ IsAdd(NCalls - 1) /\ IsAdd(NCalls)
    /\ opened[NCalls - 1] = NCalls - 1
    /\ rets[NCalls] # None
    /\ GlyphAt(NCalls).style = GlyphAt(NCalls - 1).style
    /\ GlyphAt(NCalls).font_size = GlyphAt(NCalls - 1).font_size
    /\ GlyphAt(NCalls).line_y # GlyphAt(NCalls - 1).line_y
    /\ WithinTolerance(GlyphAt(NCalls).line_y, GlyphAt(NCalls - 1).line_y)
    /\ rets[NCalls][1].end_x = GlyphAt(NCalls).x
    /\ rets[NCalls][1].end_x < GlyphAt(NCalls - 1).x + GlyphAt(NCalls - 1).width
    /\ alg.ongoing_line[1].start_x = GlyphAt(NCalls).x

\* The Lines returned so far.
NumLines == Cardinality({i \in 1..NCalls : rets[i] # None})

\* C4's rule: glyph g begins a new run relative to its predecessor p.
BeginsRun(p, g) ==
    \/ g.style # p.style
    \/ ~WithinTolerance(p.line_y, g.line_y)
    \/ ~WithinTolerance(p.font_size, g.font_size)
    \/ g.x < p.x + p.width

\* The number of maximal runs of the first n calls, all of them add_glyph.
MaximalRuns(n) ==
    IF n = 0
    THEN 0
    ELSE 1 + Cardinality({i \in 2..n : BeginsRun(GlyphAt(i - 1), GlyphAt(i))})

\* A fresh generator was fed N glyphs and then flushed once.
StreamThenFlush ==
    /\ NCalls >= 1
    /\ IsPop(NCalls)
    /\ \A i \in 1..(NCalls - 1) : IsAdd(i)

\* C4: for a stream of N glyphs followed by one pop_line, the number of
\* Lines returned is the number of maximal runs of the stream, and at most N.
C4_LinesAreMaximalRuns ==
    StreamThenFlush =>
        /\ NumLines = MaximalRuns(NCalls - 1)
        /\ NumLines <= NCalls - 1

\* C5 as a property of one step.
C5_Step ==
    /\ PopStep =>
          /\ alg'.ongoing_line = None
          /\ alg.ongoing_line = None => StepRet = None
          /\ alg.ongoing_line # None =>
                /\ StepRet # None
                /\ StepRet[1].y = alg.ongoing_line[1].y
                /\ StepRet[1].start_x = alg.ongoing_line[1].start_x
                /\ StepRet[1].end_x = alg.ongoing_line[1].end_x
                /\ StepRet[1].style = alg.ongoing_line[1].style
    /\ (PopStep /\ NCalls = 0) => StepRet = None
    /\ (PopStep /\ NCalls >= 1 /\ IsPop(NCalls)) => StepRet = None

\* C5: pop_line returns the open run as a Line when one is open and nothing
\* when the generator is idle, and leaves the generator idle; the first
\* pop_line of a fresh generator and a pop_line right after a pop_line
\* return nothing.
C5_PopLineFlushesOnce == [][C5_Step]_vars

\* C5 witness: pop_line returned the open run, and a second pop_line right
\* after it returned nothing.
C5_Witness ==
    /\ NCalls >= 3
    /\ IsAdd(NCalls - 2) /\ IsPop(NCalls - 1) /\ IsPop(NCalls)
    /\ rets[NCalls - 1] # None
    /\ rets[NCalls - 1][1].end_x =
          GlyphAt(NCalls - 2).x + GlyphAt(NCalls - 2).width
    /\ rets[NCalls] = None
    /\ alg.ongoing_line = None

\* C6 as a property of one step.
C6_Step ==
    /\ AddStep =>
          /\ alg'.ongoing_line # None
          /\ alg'.ongoing_line[1].end_x = StepGlyph.x + StepGlyph.width
          /\ alg'.ongoing_line[1].style = StepGlyph.style
    /\ (Len(calls') = Len(calls) + 1 /\ StepRet # None) =>
          /\ RunFirst # 0
          /\ RunFirst <= NCalls
          /\ opened'[Len(opened')] # RunFirst
    /\ (PopStep /\ NCalls >= 1 /\ IsAdd(NCalls)) =>
          /\ StepRet # None
          /\ StepRet[1].end_x = GlyphAt(NCalls).x + GlyphAt(NCalls).width
          /\ StepRet[1].style = GlyphAt(NCalls).style

\* C6: after every add_glyph(g) a run is open whose end_x is g.x + g.width
\* and whose style is g.style; a Line is returned only for a run opened by
\* an earlier call, which is then no longer open; a pop_line right after an
\* add_glyph returns a Line.
C6_FinalRunNeedsFlush == [][C6_Step]_vars

\* C6 witness: three glyphs were merged into one run without any Line being
\* returned, and the pop_line that followed returned it.
C6_Witness ==
    /\ NCalls = 4
    /\ IsAdd(1) /\ IsAdd(2) /\ IsAdd(3) /\ IsPop(4)
    /\ rets[1] = None /\ rets[2] = None /\ rets[3] = None
    /\ opened[3] = 1
    /\ rets[4] # None
    /\ rets[4][1].end_x = GlyphAt(3).x + GlyphAt(3).width

\* C7 as a property of one add_glyph step.
C7_Step ==
    AddStep =>
        LET g == StepGlyph
            old == alg.ongoing_line
        IN  /\ StepRet # None =>
                  /\ old # None
                  /\ StepRet[1].y = old[1].y
                  /\ StepRet[1].start_x = old[1].start_x
                  /\ StepRet[1].style = old[1].style
                  /\ opened'[Len(opened')] # RunFirst
            /\ (old = None \/ FourHold(old[1], g)) => StepRet = None

\* C7: a Line returned by add_glyph(g) is the run that was open before the
\* call (its y, start_x and style), never the run g opens or joins;
\* add_glyph on an idle generator, or with a glyph that extends the open
\* run, returns nothing.
C7_ReturnsPreviousRun == [][C7_Step]_vars

\* C7 witness: add_glyph returned a Line that differs from the run its glyph
\* opened in y, start_x and style.
C7_Witness ==
    /\ NCalls >= 2
    /\ IsAdd(NCalls)
    /\ rets[NCalls] # None
    /\ alg.ongoing_line # None
    /\ rets[NCalls][1].y # alg.ongoing_line[1].y
    /\ rets[NCalls][1].start_x # alg.ongoing_line[1].start_x
    /\ rets[NCalls][1].style # alg.ongoing_line[1].style

\* The calls whose glyphs were absorbed into the run that call i returned.
RunOf(i) == opened[i - 1]..(i - 1)

\* Twice the offset C8 states, so that no division is needed.
TwiceOffset(ty, font_size) ==
    CASE ty = "Overline" -> 0
      [] ty = "StrikeThrough" -> font_size
      [] ty = "Underline" -> 2 * font_size

\* C8: every Line returned has y = line_y + offset(font_size) of the glyph
\* that opened its run, offset being 0 for Overline, font_size / 2 for
\* StrikeThrough and font_size for Underline.
C8_LineYFromOpeningGlyph ==
    \A i \in 1..NCalls :
        rets[i] # None =>
            /\ opened[i - 1] \in 1..(i - 1)
            /\ IsAdd(opened[i - 1])
            /\ 2 * rets[i][1].y =
                  2 * GlyphAt(opened[i - 1]).line_y
                  + TwiceOffset(alg.line_type, GlyphAt(opened[i - 1]).font_size)

\* C8 witness: a strike-through run opened by a glyph of the larger font
\* size was extended by a second glyph and then returned, with y half the
\* font size below the line position.
C8_Witness ==
    /\ NCalls >= 3
    /\ rets[NCalls] # None
    /\ opened[NCalls - 1] = NCalls - 2
    /\ GlyphAt(NCalls - 2).font_size = Grid(28)
    /\ GlyphAt(NCalls - 1).x > GlyphAt(NCalls - 2).x
    /\ alg.line_type = "StrikeThrough"
    /\ rets[NCalls][1].y = GlyphAt(NCalls - 2).line_y + Grid(14)

\* The glyphs fed, in order.
Stream ==
    LET adds == SelectSeq(calls, LAMBDA c : c.op = "add_glyph")
    IN  [i \in 1..Len(adds) |-> adds[i].arg[1]]

\* C9's precondition: widths are not negative, and a glyph on the same text
\* line as its predecessor is not left of it.
OrderedStream ==
    /\ \A i \in 1..Len(Stream) : Stream[i].width >= 0
    /\ \A i \in 2..Len(Stream) :
          WithinTolerance(Stream[i - 1].line_y, Stream[i].line_y)
              => Stream[i - 1].x <= Stream[i].x

\* C9: for a stream with non-negative widths and x non-decreasing within a
\* text line, every Line returned has end_x >= start_x.
C9_EndNotBeforeStart ==
    OrderedStream =>
        \A i \in 1..NCalls :
            rets[i] # None => rets[i][1].end_x >= rets[i][1].start_x

\* C10: the style of every Line returned is the style of every glyph that
\* was absorbed into its run.
C10_OneStylePerLine ==
    \A i \in 1..NCalls :
        rets[i] # None =>
            \A j \in RunOf(i) :
                IsAdd(j) /\ GlyphAt(j).style = rets[i][1].style

\* C10 witness: a run of two glyphs was closed by a glyph of the other
\* style, placed where it would otherwise have extended the run.
C10_Witness ==
    /\ NCalls >= 3
    /\ IsAdd(NCalls)
    /\ rets[NCalls] # None
    /\ opened[NCalls - 1] = NCalls - 2
    /\ GlyphAt(NCalls).style # rets[NCalls][1].style
    /\ GlyphAt(NCalls).line_y = GlyphAt(NCalls - 1).line_y
    /\ GlyphAt(NCalls).font_size = GlyphAt(NCalls - 1).font_size
    /\ GlyphAt(NCalls).x >= GlyphAt(NCalls - 1).x + GlyphAt(NCalls - 1).width

\* C11 as a property of one add_glyph step: a glyph of the open run's style,
\* line and font size.
C11_Step ==
    (/\ AddStep
     /\ alg.ongoing_line # None
     /\ StepGlyph.style = alg.ongoing_line[1].style
     /\ WithinTolerance(alg.ongoing_line[1].last_line_y, StepGlyph.line_y)
     /\ WithinTolerance(alg.ongoing_line[1].font_size, StepGlyph.font_size))
    => LET g == StepGlyph
           old == alg.ongoing_line[1]
           now == alg'.ongoing_line
       IN  /\ g.x < old.end_x =>
                 /\ StepRet # None
                 /\ StepRet[1].start_x = old.start_x
                 /\ StepRet[1].style = old.style
                 /\ now # None
                 /\ now[1].start_x = g.x
                 /\ opened'[Len(opened')] = Len(calls')
           /\ g.x = old.end_x =>
                 /\ StepRet = None
                 /\ now # None
                 /\ now[1].start_x = old.start_x
                 /\ now[1].end_x = g.x + g.width
                 /\ opened'[Len(opened')] = RunFirst

\* C11: a glyph with the open run's style, line and font size closes the run
\* (it is returned as a Line) and opens a second run at its own x when its x
\* is strictly less than the run's end_x, and extends the run when its x is
\* exactly end_x.
C11_OverlapSplitsExactly == [][C11_Step]_vars

\* C11 witness: a glyph placed exactly at end_x extended the run, and the
\* next glyph, alike but left of the new end_x, closed it and opened a
\* second run at its x.
C11_Witness ==
    /\ NCalls >= 3
    /\ IsAdd(NCalls - 2) /\ IsAdd(NCalls - 1) /\ IsAdd(NCalls)
    /\ opened[NCalls - 2] = NCalls - 2
    /\ GlyphAt(NCalls - 1).x = GlyphAt(NCalls - 2).x + GlyphAt(NCalls - 2).width
    /\ rets[NCalls - 1] = None
    /\ opened[NCalls - 1] = NCalls - 2
    /\ GlyphAt(NCalls).style = GlyphAt(NCalls - 1).style
    /\ GlyphAt(NCalls).line_y = GlyphAt(NCalls - 2).line_y
    /\ GlyphAt(NCalls).font_size = GlyphAt(NCalls - 2).font_size
    /\ GlyphAt(NCalls).x < GlyphAt(NCalls - 1).x + GlyphAt(NCalls - 1).width
    /\ rets[NCalls] # None
    /\ rets[NCalls][1].start_x = GlyphAt(NCalls - 2).x
    /\ opened[NCalls] = NCalls
    /\ alg.ongoing_line[1].start_x = GlyphAt(NCalls).x

\* C12 as a property of one step that closes the open run by pop_line, or by
\* a glyph whose line_y is not within tolerance of the run's last_line_y.
C12_Step ==
    (/\ alg.ongoing_line # None
     /\ \/ PopStep
        \/ /\ AddStep
           /\ ~WithinTolerance(alg.ongoing_line[1].last_line_y,
                               StepGlyph.line_y))
    => /\ StepRet # None
       /\ RunFirst \in 1..NCalls
       /\ \A j \in RunFirst..NCalls : IsAdd(j)
       /\ StepRet[1].start_x = GlyphAt(RunFirst).x
       /\ StepRet[1].end_x = GlyphAt(NCalls).x + GlyphAt(NCalls).width
       /\ (\A j \in RunFirst..NCalls : GlyphAt(j).width > 0)
             => StepRet[1].end_x > StepRet[1].start_x

\* C12: a run closed by pop_line, or by a glyph whose line_y is not within
\* tolerance of the run's last_line_y, is returned with its full extent:
\* start_x is the x of the glyph that opened it, end_x is x + width of the
\* last glyph absorbed; with positive widths the Line is not zero-length.
C12_OtherLineKeepsExtent == [][C12_Step]_vars

\* C12 witness: two glyphs with a gap between them formed one run, and a
\* glyph on another line, at the run's start_x, closed it; the Line returned
\* spans from the first glyph's x to the second glyph's right edge.
C12_Witness ==
    /\ NCalls = 3
    /\ IsAdd(1) /\ IsAdd(2) /\ IsAdd(3)
    /\ GlyphAt(2).x > GlyphAt(1).x + GlyphAt(1).width
    /\ opened[2] = 1
    /\ ~WithinTolerance(GlyphAt(3).line_y, GlyphAt(1).line_y)
    /\ GlyphAt(3).x = GlyphAt(1).x
    /\ rets[3] # None
    /\ rets[3][1].start_x = GlyphAt(1).x
    /\ rets[3][1].end_x = GlyphAt(2).x + GlyphAt(2).width

\* C13: Color::rgba(r, g, b, a) has red() = r, green() = g, blue() = b,
\* alpha() = a and components() = [r, g, b, a], with red in the highest byte
\* and alpha in the lowest byte of the 32-bit value.
C13_ColorRoundTrip ==
    \A i \in 1..Len(calls) :
        /\ calls[i].op = "rgba" =>
              LET in == calls[i].arg[1]
                  color == rets[i][1]
              IN  /\ red(color) = in[1]
                  /\ green(color) = in[2]
                  /\ blue(color) = in[3]
                  /\ alpha(color) = in[4]
                  /\ color.hi \div 2 ^ 8 = in[1]
                  /\ color.lo % 2 ^ 8 = in[4]
                  /\ color.hi \in 0..(2 ^ 16 - 1)
                  /\ color.lo \in 0..(2 ^ 16 - 1)
        /\ calls[i].op = "components" =>
              /\ i > 1
              /\ calls[i - 1].op = "rgba"
              /\ calls[i].arg = rets[i - 1]
              /\ rets[i][1] = calls[i - 1].arg[1]

\* C13 witness: the color of the colors test, rgba(1, 2, 3, 4), was packed
\* and components() gave back the four bytes.
C13_Witness ==
    /\ Len(calls) = 2
    /\ calls[1] = RgbaCall(1, 2, 3, 4)
    /\ calls[2].op = "components"
    /\ rets[2] = Some(<< 1, 2, 3, 4 >>)

\* C14 as a property of one add_glyph step on an open run.
C14_Step ==
    (AddStep /\ alg.ongoing_line # None) =>
        LET g == StepGlyph
            old == alg.ongoing_line[1]
            same_line == WithinTolerance(old.last_line_y, g.line_y)
            same_size == WithinTolerance(old.font_size, g.font_size)
        IN  /\ (~same_line \/ ~same_size) => StepRet # None
            /\ ~same_line =>
                  /\ StepRet # None
                  /\ StepRet[1].end_x = old.end_x
            /\ (same_line /\ StepRet # None) => StepRet[1].end_x = g.x
            /\ (same_line /\ same_size /\ g.style = old.style
                   /\ old.end_x <= g.x) => StepRet = None
            /\ g.x < old.end_x => StepRet # None
            /\ g.style # old.style => StepRet # None

\* C14: line_y and font_size are treated as equal iff |a - b| < 0.001, the
\* bound being strict: a glyph whose line_y or font_size differs from the
\* run's stored value by exactly the bound or by more never extends the run,
\* and one whose line_y does never triggers the end_x snap; a smaller
\* difference is no difference; style and x are compared without tolerance.
C14_FixedAbsoluteTolerance == [][C14_Step]_vars

\* C14 witness: a glyph of the run's style and font size, just right of the
\* run's end_x, whose line_y differs from the run's by exactly EPSILON,
\* closed the run, and the Line returned kept the run's end_x.
C14_Witness ==
    /\ NCalls = 2
    /\ IsAdd(1) /\ IsAdd(2)
    /\ GlyphAt(1).x = Grid(0)
    /\ GlyphAt(2).line_y - GlyphAt(1).line_y = 17179870
    /\ GlyphAt(2).font_size = GlyphAt(1).font_size
    /\ GlyphAt(2).style = GlyphAt(1).style
    /\ GlyphAt(2).x = Grid(2) + 1
    /\ rets[2] # None
    /\ rets[2][1].end_x = Grid(2)

\* What a generator in state self returns, call by call, when fed cs.
RECURSIVE Replay(_, _)
Replay(self, cs) ==
    IF cs = << >>
    THEN << >>
    ELSE LET r == IF Head(cs).op = "add_glyph"
                  THEN add_glyph(self, Head(cs).arg[1])
                  ELSE pop_line(self)
         IN  << r.ret >> \o Replay(r.self, Tail(cs))

\* A returned value without its y.
Extent(ret) ==
    IF ret = None
    THEN None
    ELSE Some([start_x |-> ret[1].start_x, end_x |-> ret[1].end_x,
               style |-> ret[1].style])

\* C15: fed the same calls, generators constructed with Overline,
\* StrikeThrough and Underline return Lines on exactly the same calls, with
\* the same start_x, end_x and style.
C15_LineTypeChangesOnlyY ==
    \A ty \in LineType :
        LET other == Replay(new(ty), calls)
        IN  /\ Len(other) = Len(rets)
            /\ \A i \in 1..Len(rets) : Extent(other[i]) = Extent(rets[i])

\* C15 witness: an underline run of font size 4 / 16384 px, whose y is
\* 4 / 16384 px below its line position, was closed by a glyph of the other
\* style on the same line, after a gap, and its end_x was moved to the
\* glyph's x.
C15_Witness ==
    /\ NCalls >= 2
    /\ alg.line_type = "Underline"
    /\ IsAdd(NCalls - 1) /\ IsAdd(NCalls)
    /\ opened[NCalls - 1] = NCalls - 1
    /\ GlyphAt(NCalls).style # GlyphAt(NCalls - 1).style
    /\ GlyphAt(NCalls).line_y = GlyphAt(NCalls - 1).line_y
    /\ GlyphAt(NCalls).x > GlyphAt(NCalls - 1).x + GlyphAt(NCalls - 1).width
    /\ rets[NCalls] # None
    /\ rets[NCalls][1].y = GlyphAt(NCalls - 1).line_y + Grid(4)
    /\ rets[NCalls][1].end_x = GlyphAt(NCalls).x

\* C16: extending a run leaves its y, start_x and style as the glyph that
\* opened it set them, however many glyphs extended it; so every Line
\* returned has start_x equal to the x of the glyph that opened its run.
C16_ExtensionKeepsStart ==
    /\ alg.ongoing_line # None =>
          /\ RunFirst \in 1..NCalls
          /\ IsAdd(RunFirst)
          /\ alg.ongoing_line[1].start_x = GlyphAt(RunFirst).x
          /\ alg.ongoing_line[1].style = GlyphAt(RunFirst).style
          /\ 2 * alg.ongoing_line[1].y =
                2 * GlyphAt(RunFirst).line_y
                + TwiceOffset(alg.line_type, GlyphAt(RunFirst).font_size)
    /\ \A i \in 1..NCalls :
          rets[i] # None =>
              /\ opened[i - 1] \in 1..(i - 1)
              /\ rets[i][1].start_x = GlyphAt(opened[i - 1]).x

\* C16 witness: a run opened at x = 0 was extended twice, by glyphs at
\* 2 / 16384 px and 4 / 16384 px, and then returned by pop_line with
\* start_x = 0 and end_x = 6 / 16384 px.
C16_Witness ==
    /\ NCalls = 4
    /\ IsAdd(1) /\ IsAdd(2) /\ IsAdd(3) /\ IsPop(4)
    /\ opened[2] = 1 /\ opened[3] = 1
    /\ GlyphAt(1).x = Grid(0) /\ GlyphAt(2).x = Grid(2)
    /\ GlyphAt(3).x = Grid(4)
    /\ rets[4] # None
    /\ rets[4][1].start_x = Grid(0)
    /\ rets[4][1].end_x = Grid(6)

\* C17 as a property of one step.
C17_Step ==
    /\ alg'.line_type = alg.line_type
    /\ Len(alg'.ongoing_line) <= 1
    /\ PopStep =>
          /\ alg'.ongoing_line = None
          /\ alg' = [alg EXCEPT !.ongoing_line = None]

\* C17: no call of add_glyph or pop_line changes line_type; the generator
\* holds at most one open run; pop_line changes only the open run, which it
\* sets to none.
C17_LineTypeIsFixed == [][C17_Step]_vars

\* C17 witness: an underline generator opened a run, replaced it by another
\* and was flushed; it is idle and still an underline generator, as the y of
\* the Line it returned last shows.
C17_Witness ==
    /\ NCalls >= 3
    /\ IsAdd(NCalls - 2) /\ IsAdd(NCalls - 1) /\ IsPop(NCalls)
    /\ rets[NCalls - 1] # None
    /\ rets[NCalls] # None
    /\ rets[NCalls][1].y =
          GlyphAt(NCalls - 1).line_y + GlyphAt(NCalls - 1).font_size
    /\ alg = new("Underline")

====
